---- MODULE Spec2Model ----
(***************************************************************************)
(* A model of corefs/superblock.c: key derivation (coreHashKey), the       *)
(* plaintext header codec (readSuperBlock1 / the first half of             *)
(* coreWriteSuperBlock), the encrypted record codec (readSuperBlock2 / the *)
(* second half of coreWriteSuperBlock) and the SuperBlock lifecycle        *)
(* (coreReadSuperBlock, coreWriteSuperBlock, coreDropSuperBlock).          *)
(*                                                                         *)
(* Text is modelled as sequences of one-character strings, bytes as        *)
(* integers 0..255, C arrays as functions or sequences of bytes.           *)
(***************************************************************************)
EXTENDS Integers, Sequences, FiniteSets, TLC

VARIABLES
  file1,      \* the plaintext header file: missing, or its lines
  file2,      \* the encrypted record file: missing, short, corrupt, or one sector
  sb,         \* the caller's SuperBlock pointer: null, or the instance
  keyState,   \* the cipher key handle of the latest Open: none/live/destroyed
  volState,   \* the Volume handle of the latest Open: none/live/released
  memState,   \* the secure memory of the latest Open: none/live/freed
  last,       \* what the latest operation was, its inputs and its result
  log,        \* the calls the latest operation made, in order
  aborted,    \* the process was killed by an out-of-bounds access
  rt,         \* the values of the latest complete write, while both files stay as written
  hs          \* coreHashKey run on its own: its locals, step by step

vars == <<file1, file2, sb, keyState, volState, memState, last, log, aborted, rt, hs>>

(***************************************************************************)
(* Constants of the program.                                               *)
(***************************************************************************)
\* sha.h (outside src/); the comment at superblock.c:48 gives the value.
SHA_DIGESTSIZE == 20
\* cipher.h (outside src/): the size of abKey in readSuperBlock1.
MAX_KEY_SIZE == 32
\* superblock.h (outside src/): the canonical magic and the current version.
SUPERBLOCK2_MAGIC == 19001
SBV_CURRENT == 2
\* corefs.h (outside src/): the CBC bit of flCryptoFlags; the header file
\* stores it as 0 or 1.
CCRYPT_USE_CBC == 1
\* coreWriteSuperBlock's flags: do not rewrite the plaintext header.
CWS_NOWRITE_SUPERBLOCK1 == 1

(***************************************************************************)
(* Bounds of the model.                                                    *)
(***************************************************************************)
\* the longest passphrase coreHashKey is run on by itself
MaxPassLen == 45
\* the longest key coreHashKey is run on by itself
MaxKeyLen == 24
\* sizeof(szLabel), sizeof(szDescription), scaled down
LabelWidth == 3
DescWidth == 3

(***************************************************************************)
(* Arithmetic and bytes.                                                   *)
(***************************************************************************)
Min(a, b) == IF a < b THEN a ELSE b

Max(a, b) == IF a > b THEN a ELSE b

\* C's integer division: it truncates towards zero.
CDiv(a, b) == IF a >= 0 THEN a \div b ELSE -((-a) \div b)

RECURSIVE XorBits(_, _, _)
XorBits(a, b, n) ==
  IF n = 0 THEN 0
  ELSE (IF (a % 2) # (b % 2) THEN 1 ELSE 0) + 2 * XorBits(a \div 2, b \div 2, n - 1)

\* a ^ b on octets
Xor(a, b) == XorBits(a, b, 8)

RECURSIVE SumTo(_, _)
SumTo(s, n) == IF n = 0 THEN 0 ELSE s[n] + SumTo(s, n - 1)

SumSeq(s) == SumTo(s, Len(s))

(***************************************************************************)
(* A note on the writing: {F(x) : x \in {e}} evaluates e once and F on its *)
(* value, where LET x == e IN F(x) may evaluate e at every use of x.  The   *)
(* loops below are written in the first way; CHOOSE picks the one element. *)
(***************************************************************************)

(***************************************************************************)
(* The digest capability (sha_init, sha_update, sha_final, sha_digest):    *)
(* a deterministic function of the bytes fed to it, SHA_DIGESTSIZE bytes   *)
(* long.  The real SHA is outside src/; the model runs under several       *)
(* stand-in functions, selected by v.                                      *)
(***************************************************************************)
ShaVariants == {1, 2}

Sha(v, keyBytes, chunk) ==
  CHOOSE d \in
    { [i \in 0..(SHA_DIGESTSIZE - 1) |-> IF v = 1 THEN (s + 7 * i) % 256 ELSE 255] @@ <<>> :
        s \in {SumSeq(keyBytes) + 3 * SumSeq(chunk) + Len(chunk) + 1} } : TRUE

(***************************************************************************)
(* coreHashKey, superblock.c:71-100.  buf is the caller's buffer pabKey    *)
(* (a function on 0..cap-1) as it is before the call.                      *)
(*                                                                         *)
(* The locals are kept in a record: key (the buffer), iPos, cbLeft, off    *)
(* (how far pszKey has advanced), rounds (iterations of the while loop),   *)
(* starts (iPos at the start of each round), maxW (the highest index       *)
(* written through pabKey, -1 when none), oob (a write fell outside the    *)
(* buffer).                                                                *)
(***************************************************************************)
Cap(buf) == Cardinality(DOMAIN buf)

\* memset(pabKey, 0, cbKey); cbLeft = strlen(pszKey);  (lines 74-79)
HashInit(pszKey, buf, cbKey) ==
  [key    |-> [i \in DOMAIN buf |-> IF i < cbKey THEN 0 ELSE buf[i]],
   iPos   |-> 0,
   cbLeft |-> Len(pszKey),
   off    |-> 0,
   rounds |-> 0,
   starts |-> <<>>,
   maxW   |-> IF cbKey > 0 THEN cbKey - 1 ELSE -1,
   oob    |-> (cbKey < 0) \/ (cbKey > Cap(buf))]

\* a write position that never wraps
NextPosNoWrap(iPos, cbKey) == iPos + 1

\* if (iPos == cbKey) iPos = 0;  after iPos++  (lines 91-92)
NextPos(iPos, cbKey) == IF iPos + 1 = cbKey THEN 0 ELSE iPos + 1

\* pabKey[iPos++] ^= digest[i]; if (iPos == cbKey) iPos = 0;  (lines 91-92)
XorStep(h, d, cbKey) ==
  [h EXCEPT
     !.key  = IF h.iPos \in DOMAIN h.key
              THEN [h.key EXCEPT ![h.iPos] = Xor(h.key[h.iPos], d)]
              ELSE h.key,
     !.maxW = Max(h.maxW, h.iPos),
     !.oob  = h.oob \/ h.iPos \notin DOMAIN h.key,
     !.iPos = NextPos(h.iPos, cbKey)]

\* for (i = 0; i < SHA_DIGESTSIZE; i++) { ... }  (line 90)
RECURSIVE XorLoop(_, _, _, _)
XorLoop(h, digest, cbKey, i) ==
  IF i = SHA_DIGESTSIZE THEN h
  ELSE CHOOSE r \in {XorLoop(h2, digest, cbKey, i + 1) :
                       h2 \in {XorStep(h, digest[i], cbKey)}} : TRUE

\* sha_update(&ctx, pabKey, cbKey): the cbKey bytes of the buffer that exist
KeyBytes(key, cbKey) ==
  [j \in 1..Max(0, Min(cbKey, Cap(key))) |-> key[j - 1]] @@ <<>>

\* one iteration of while (cbLeft > 0)  (lines 81-97)
HashRound(h, pszKey, cbKey, v) ==
  LET cbAdd == IF h.cbLeft >= SHA_DIGESTSIZE THEN SHA_DIGESTSIZE ELSE h.cbLeft
  IN  CHOOSE r \in
        { [h2 EXCEPT !.off = h.off + cbAdd, !.cbLeft = h.cbLeft - cbAdd] :
            h2 \in { XorLoop(h1, digest, cbKey, 0) :
                       digest \in {Sha(v, KeyBytes(h.key, cbKey),
                                       SubSeq(pszKey, h.off + 1, h.off + cbAdd))},
                       h1 \in {[h EXCEPT !.starts = Append(h.starts, h.iPos),
                                          !.rounds = h.rounds + 1]} } } : TRUE

RECURSIVE HashLoop(_, _, _, _)
HashLoop(h, pszKey, cbKey, v) ==
  IF h.cbLeft > 0
  THEN CHOOSE r \in {HashLoop(h2, pszKey, cbKey, v) :
                       h2 \in {HashRound(h, pszKey, cbKey, v)}} : TRUE
  ELSE h

\* the whole function; it returns CORERC_OK on every path (line 99)
coreHashKey(pszKey, buf, cbKey, v) ==
  CHOOSE r \in {HashLoop(h, pszKey, cbKey, v) : h \in {HashInit(pszKey, buf, cbKey)}} : TRUE

\* a passphrase of n bytes, none of them NUL
Pass(n) == [i \in 1..n |-> ((i * 37 + n) % 255) + 1]

\* the caller's buffer before the call: indeterminate bytes
StackFill == {0, 170}

Buffer(cap, fill) == [i \in 0..(cap - 1) |-> fill]

(***************************************************************************)
(* Text: scanf and printf, as far as superblock.c uses them.               *)
(***************************************************************************)
IsSpace(c) == c \in {" ", "\t"}

IsDigit(c) == c \in {"0", "1", "2", "3", "4", "5", "6", "7", "8", "9"}

DigitVal(c) ==
  CASE c = "0" -> 0 [] c = "1" -> 1 [] c = "2" -> 2 [] c = "3" -> 3 [] c = "4" -> 4
    [] c = "5" -> 5 [] c = "6" -> 6 [] c = "7" -> 7 [] c = "8" -> 8 [] c = "9" -> 9

DigitChar(d) == <<"0", "1", "2", "3", "4", "5", "6", "7", "8", "9">>[d + 1]

\* the first index at or after i whose character is not white space
RECURSIVE SkipSpace(_, _)
SkipSpace(s, i) ==
  IF i <= Len(s) /\ IsSpace(s[i]) THEN SkipSpace(s, i + 1) ELSE i

\* %[^c] and %s: the first index at or after i whose character is in stop,
\* reading at most max characters
RECURSIVE SpanNot(_, _, _, _)
SpanNot(s, i, stop, max) ==
  IF i <= Len(s) /\ max > 0 /\ s[i] \notin stop
  THEN SpanNot(s, i + 1, stop, max - 1) ELSE i

RECURSIVE DigitsEnd(_, _)
DigitsEnd(s, i) == IF i <= Len(s) /\ IsDigit(s[i]) THEN DigitsEnd(s, i + 1) ELSE i

RECURSIVE DigitsVal(_, _, _)
DigitsVal(s, i, j) ==
  IF j <= i THEN 0 ELSE 10 * DigitsVal(s, i, j - 1) + DigitVal(s[j - 1])

\* %d at index i: white space, an optional sign, one digit or more
ScanIntAt(s, a, b, e) ==
  IF e = b THEN [ok |-> FALSE, val |-> 0, next |-> a]
  ELSE [ok |-> TRUE,
        val |-> IF b > a /\ s[a] = "-" THEN -DigitsVal(s, b, e) ELSE DigitsVal(s, b, e),
        next |-> e]

ScanInt(s, i) ==
  CHOOSE r \in
    { CHOOSE r2 \in
        { CHOOSE r3 \in {ScanIntAt(s, a, b, e) : e \in {DigitsEnd(s, b)}} : TRUE :
            b \in {IF a <= Len(s) /\ s[a] \in {"+", "-"} THEN a + 1 ELSE a} } : TRUE :
        a \in {SkipSpace(s, i)} } : TRUE

\* printf's %d
RECURSIVE FormatNat(_)
FormatNat(n) ==
  IF n < 10 THEN <<DigitChar(n)>> ELSE Append(FormatNat(n \div 10), DigitChar(n % 10))

FormatInt(n) == IF n < 0 THEN <<"-">> \o FormatNat(-n) ELSE FormatNat(n)

\* sscanf(szLine, "%[^:]: %s\n", szName, szValue)  (line 129): the number of
\* conversions made, and what they stored
ScanLineAt(szLine, e1, a, e2) ==
  IF e1 = 1 THEN [n |-> 0, szName |-> <<>>, szValue |-> <<>>]
  ELSE IF e1 > Len(szLine) \/ e2 = a
  THEN [n |-> 1, szName |-> SubSeq(szLine, 1, e1 - 1), szValue |-> <<>>]
  ELSE [n |-> 2, szName |-> SubSeq(szLine, 1, e1 - 1),
        szValue |-> SubSeq(szLine, a, e2 - 1)]

ScanLine(szLine) ==
  CHOOSE r \in
    { CHOOSE r2 \in
        { CHOOSE r3 \in {ScanLineAt(szLine, e1, a, e2) :
                           e2 \in {SpanNot(szLine, a, {" ", "\t"}, Len(szLine))}} : TRUE :
            a \in {SkipSpace(szLine, e1 + 1)} } : TRUE :
        e1 \in {SpanNot(szLine, 1, {":"}, Len(szLine))} } : TRUE

\* sscanf(szValue, "%63[^-]-%d-%d", szCipher, &cbKey, &cbBlock)  (lines 132-133).
\* p holds szCipher, cbKey and cbBlock as they are before the call; each
\* conversion stores its value as soon as it is made, so a call that stops
\* early has already overwritten the targets of the conversions before it.
ScanCipherAt(szValue, p, e1, k, b) ==
  LET p1 == [p EXCEPT !.szCipher = SubSeq(szValue, 1, e1 - 1)]
      p2 == [p1 EXCEPT !.cbKey = k.val]
      p3 == [p2 EXCEPT !.cbBlock = b.val]
  IN  IF e1 = 1 THEN [n |-> 0, p |-> p]
      ELSE IF e1 > Len(szValue) \/ szValue[e1] # "-" \/ ~k.ok THEN [n |-> 1, p |-> p1]
      ELSE IF k.next > Len(szValue) \/ szValue[k.next] # "-" \/ ~b.ok THEN [n |-> 2, p |-> p2]
      ELSE [n |-> 3, p |-> p3]

ScanCipher(szValue, p) ==
  CHOOSE r \in
    { CHOOSE r2 \in
        { CHOOSE r3 \in {ScanCipherAt(szValue, p, e1, k, b) :
                           b \in {ScanInt(szValue, k.next + 1)}} : TRUE :
            k \in {ScanInt(szValue, e1 + 1)} } : TRUE :
        e1 \in {SpanNot(szValue, 1, {"-"}, 63)} } : TRUE

S_cipher == <<"c", "i", "p", "h", "e", "r">>

S_usecbc == <<"u", "s", "e", "-", "c", "b", "c">>

\* flCryptoFlags |= CCRYPT_USE_CBC,  flCryptoFlags &= ~CCRYPT_USE_CBC,
\* flCryptoFlags & CCRYPT_USE_CBC
SetCbc(fl) == IF (fl \div CCRYPT_USE_CBC) % 2 = 1 THEN fl ELSE fl + CCRYPT_USE_CBC

ClearCbc(fl) == IF (fl \div CCRYPT_USE_CBC) % 2 = 1 THEN fl - CCRYPT_USE_CBC ELSE fl

AndCbc(fl) == IF (fl \div CCRYPT_USE_CBC) % 2 = 1 THEN CCRYPT_USE_CBC ELSE 0

\* the body of the while (fgets(...)) loop for one line  (lines 129-142)
CipherLine(p, c) ==
  IF c.n # 3 THEN c.p
  ELSE [c.p EXCEPT !.cbBlock = CDiv(c.p.cbBlock, 8), !.cbKey = CDiv(c.p.cbKey, 8)]

CbcLine(p, szValue) ==
  IF szValue = <<"1">>
  THEN [p EXCEPT !.flCryptoFlags = SetCbc(p.flCryptoFlags)]
  ELSE [p EXCEPT !.flCryptoFlags = ClearCbc(p.flCryptoFlags)]

HeaderLine(p, szLine) ==
  CHOOSE r \in
    { IF l.n # 2 THEN p
      ELSE IF l.szName = S_cipher
      THEN CHOOSE q \in {CipherLine(p, c) : c \in {ScanCipher(l.szValue, p)}} : TRUE
      ELSE IF l.szName = S_usecbc THEN CbcLine(p, l.szValue)
      ELSE p : l \in {ScanLine(szLine)} } : TRUE

\* the whole loop  (lines 113-115, 127-144): szCipher = "", cbKey = 0,
\* cbBlock = 0, and the caller's flCryptoFlags, then every line in turn
RECURSIVE HeaderLoop(_, _, _)
HeaderLoop(p, lines, i) ==
  IF i > Len(lines) THEN p
  ELSE CHOOSE r \in {HeaderLoop(q, lines, i + 1) : q \in {HeaderLine(p, lines[i])}} : TRUE

ParseHeader(lines, flCryptoFlags) ==
  CHOOSE r \in
    { HeaderLoop(p, lines, 1) :
        p \in {[szCipher |-> <<>>, cbKey |-> 0, cbBlock |-> 0,
                 flCryptoFlags |-> flCryptoFlags]} } : TRUE

\* a cipher line that gives the sizes in bytes
FormatCipherLineBytes(pKey) ==
  S_cipher \o <<":", " ">> \o pKey.pszID \o <<"-">> \o FormatInt(pKey.cbKey)
    \o <<"-">> \o FormatInt(pKey.cbBlock)

\* fprintf(file, "cipher: %s-%d-%d\n", ...), fprintf(file, "use-cbc: %d\n", ...)
\* (lines 298-308)
FormatCipherLine(pKey) ==
  S_cipher \o <<":", " ">> \o pKey.pszID \o <<"-">> \o FormatInt(pKey.cbKey * 8)
    \o <<"-">> \o FormatInt(pKey.cbBlock * 8)

FormatCbcLine(flCryptoFlags) ==
  S_usecbc \o <<":", " ">> \o FormatInt(AndCbc(flCryptoFlags))

(***************************************************************************)
(* The cipher registry and the cipher layer.                               *)
(***************************************************************************)
ID_aes == <<"a", "e", "s">>

ID_bf == <<"b", "f">>

\* the caller's papCipher, up to its null sentinel
papCipher == <<ID_aes, ID_bf>>

\* a lookup that takes the first cipher whatever the header names
FindCipherFirst(reg, szCipher, i) == 1

\* while (*papCipher) { if (strcmp(...) == 0) break; papCipher++; }
\* (lines 149-153): the index of the first match, 0 at the sentinel
RECURSIVE FindCipher(_, _, _)
FindCipher(reg, szCipher, i) ==
  IF i > Len(reg) THEN 0
  ELSE IF reg[i] = szCipher THEN i
  ELSE FindCipher(reg, szCipher, i + 1)

\* cipherResultToCore  (lines 29-41)
cipherResultToCore(cr) ==
  CASE cr = "CIPHERRC_OK" -> "CORERC_OK"
    [] cr = "CIPHERRC_NOT_ENOUGH_MEMORY" -> "CORERC_NOT_ENOUGH_MEMORY"
    [] cr = "CIPHERRC_UNKNOWN_CIPHER" -> "CORERC_UNKNOWN_CIPHER"
    [] OTHER -> "CORERC_MISC_CIPHER"

\* cryptCreateKey (cipher layer, outside src/): the result it reports.  It
\* can fail for lack of memory or for a reason of the cipher's, and no
\* cipher takes a key longer than MAX_KEY_SIZE or without a byte in it.
cryptCreateKeyResult(cbKey, fault) ==
  CASE fault = "keyNoMem"   -> "CIPHERRC_NOT_ENOUGH_MEMORY"
    [] fault = "keyUnknown" -> "CIPHERRC_UNKNOWN_CIPHER"
    [] fault = "keyOther"   -> "CIPHERRC_INVALID_KEYSIZE"
    [] cbKey <= 0 \/ cbKey > MAX_KEY_SIZE -> "CIPHERRC_INVALID_KEYSIZE"
    [] OTHER -> "CIPHERRC_OK"

\* the key handle cryptCreateKey builds: the cipher, the sizes, the key bytes
KeyHandle(pszID, cbBlock, cbKey, abKey) ==
  [pszID |-> pszID, cbBlock |-> cbBlock, cbKey |-> cbKey,
   key |-> KeyBytes(abKey, cbKey)]

(***************************************************************************)
(* The encrypted record: SuperBlock2OnDisk inside one sector.              *)
(***************************************************************************)
\* int32ToBytes, bytesToInt32 (outside src/): four bytes, low byte first
int32ToBytes(n) ==
  <<n % 256, (n \div 256) % 256, (n \div 65536) % 256, (n \div 16777216) % 256>>

bytesToInt32(b) == b[1] + 256 * b[2] + 65536 * b[3] + 16777216 * b[4]

\* a char array of the given width holding the string str, zero bytes after it
Field(str, width) == [i \in 1..width |-> IF i <= Len(str) THEN str[i] ELSE 0]

\* the C string a char array holds: the bytes before the first NUL
RECURSIVE CStr(_)
CStr(arr) ==
  IF arr = <<>> \/ Head(arr) = 0 THEN <<>> ELSE <<Head(arr)>> \o CStr(Tail(arr))

Terminated(arr) == \E i \in 1..Len(arr) : arr[i] = 0

\* strcpy((char *) pOnDisk->szX, pSuperBlock->szX) into the zeroed payload
\* (lines 327, 335-336).  An array without a NUL is copied past its end.
Strcpy(arr) == Field(CStr(arr), Len(arr))

\* the payload coreWriteSuperBlock builds  (lines 327-336)
OnDisk(mem) ==
  [magic         |-> int32ToBytes(SUPERBLOCK2_MAGIC),
   version       |-> int32ToBytes(SBV_CURRENT),
   flFlags       |-> int32ToBytes(mem.flFlags),
   idRoot        |-> int32ToBytes(mem.idRoot),
   szLabel       |-> Strcpy(mem.szLabel),
   szDescription |-> Strcpy(mem.szDescription)]

\* the fields readSuperBlock2 stores from the decrypted payload (lines 200-209)
FromDisk(d) ==
  [magic         |-> bytesToInt32(d.magic),
   version       |-> bytesToInt32(d.version),
   flFlags       |-> bytesToInt32(d.flFlags),
   idRoot        |-> bytesToInt32(d.idRoot),
   szLabel       |-> [d.szLabel EXCEPT ![Len(d.szLabel)] = 0],
   szDescription |-> [d.szDescription EXCEPT ![Len(d.szDescription)] = 0]]

\* a payload as bytes
Payload(magic, version, flFlags, idRoot, label, desc) ==
  [magic |-> int32ToBytes(magic), version |-> int32ToBytes(version),
   flFlags |-> int32ToBytes(flFlags), idRoot |-> int32ToBytes(idRoot),
   szLabel |-> label, szDescription |-> desc]

\* bytes nobody chose: what a sector decrypts to under another key, and what
\* freshly allocated memory holds
Junk ==
  { Payload(SUPERBLOCK2_MAGIC, SBV_CURRENT + 1, 3, 9, Field(<<76>>, LabelWidth), Field(<<>>, DescWidth)),
    Payload(SUPERBLOCK2_MAGIC + 1, SBV_CURRENT + 1, 3, 9, Field(<<76>>, LabelWidth), Field(<<>>, DescWidth)),
    Payload(SUPERBLOCK2_MAGIC, SBV_CURRENT - 1, 6, 4, [i \in 1..LabelWidth |-> 88], [i \in 1..DescWidth |-> 89]) }

\* the memory image of a payload: the fields as they lie, nothing forced
Raw(d) ==
  [magic |-> bytesToInt32(d.magic), version |-> bytesToInt32(d.version),
   flFlags |-> bytesToInt32(d.flFlags), idRoot |-> bytesToInt32(d.idRoot),
   szLabel |-> d.szLabel, szDescription |-> d.szDescription]

\* coreEncryptSectorData (outside src/): the sector depends on the payload,
\* the key handle and the crypto flags
coreEncryptSectorData(plain, pKey, flCryptoFlags) ==
  [kind |-> "sector", enc |-> pKey, fl |-> flCryptoFlags, plain |-> plain]

\* coreDecryptSectorData (outside src/): under the key and flags of the
\* encryption it gives the payload back; under any other it gives bytes
\* nobody chose, and it may or may not notice
coreDecryptSectorData(abSector, pKey, flCryptoFlags, fault, junk) ==
  IF abSector.kind = "sector" /\ abSector.enc = pKey /\ abSector.fl = flCryptoFlags
  THEN [cr |-> "CORERC_OK", plain |-> abSector.plain]
  ELSE [cr |-> IF fault = "badChecksum" THEN "CORERC_BAD_CHECKSUM" ELSE "CORERC_OK",
        plain |-> junk]

(***************************************************************************)
(* The files and the instance.                                             *)
(***************************************************************************)
Missing == [kind |-> "missing"]

TextFile(lines) == [kind |-> "file", lines |-> lines]

Short == [kind |-> "short"]

Corrupt == [kind |-> "corrupt"]

NULL == [kind |-> "null"]

NoWrite == [kind |-> "none"]

Idle == [op |-> "none"]

Line(name, value) == name \o <<":", " ">> \o value

N128 == <<"1", "2", "8">>

\* the header files found on the disk other than those coreWriteSuperBlock wrote
HeaderFiles ==
  { <<Line(S_cipher, ID_aes \o <<"-">> \o N128 \o <<"-">> \o N128), Line(S_usecbc, <<"1">>)>>,
    <<<<"#", " ", "v", "1">>,
      Line(S_usecbc, <<"0">>),
      Line(S_cipher, ID_bf \o <<"-", "6", "4", "-", "6", "4">>),
      Line(S_cipher, <<"-", "3", "2", "-", "3", "2">>),
      <<"c", "i", "p", "h", "e", "r", " ", "x">>>>,
    <<Line(S_cipher, <<"x", "x", "-">> \o N128 \o <<"-">> \o N128)>>,
    <<Line(S_usecbc, <<"1">>),
      Line(S_cipher, ID_aes \o <<"-">> \o N128 \o <<"-">> \o N128),
      Line(S_cipher, <<"x", "x", "-", "2", "4">>)>>,
    <<Line(S_cipher, ID_aes \o <<"-", "0", "-">> \o N128), Line(S_usecbc, <<"2">>)>>,
    <<Line(S_cipher, ID_aes \o <<"-", "-", "8", "-">> \o N128)>>,
    <<Line(S_cipher, ID_aes \o <<"-", "5", "1", "2", "-">> \o N128)>> }

\* the passphrases tried
Passphrases == {Pass(3), Pass(MaxPassLen)}

\* the caller's CryptedVolumeParms
Parms ==
  [flCryptoFlags : {0, CCRYPT_USE_CBC}, fReadOnly : BOOLEAN]

(***************************************************************************)
(* readSuperBlock1, superblock.c:105-168.  flIn is pParms->flCryptoFlags   *)
(* at the call, p what the loop over the lines of the header file leaves   *)
(* in szCipher, cbKey, cbBlock and pParms->flCryptoFlags, h what           *)
(* coreHashKey(pszKey, abKey, cbKey) does, fault the failure the           *)
(* environment injects (if any).  The result names the CoreResult, the     *)
(* calls made, the values parsed from the header, what coreHashKey did,    *)
(* and the key handle stored in pSuperBlock->pKey.                         *)
(***************************************************************************)
\* coreHashKey as readSuperBlock1 calls it, on its abKey[MAX_KEY_SIZE]
\* (line 158).  The results for the key lengths the header files give are
\* computed once and looked up; any other is computed on the spot.
HashedKeySizes == {ParseHeader(f, 0).cbKey : f \in HeaderFiles}

\* abKey before the call: indeterminate bytes, none of which is read
abKey == Buffer(MAX_KEY_SIZE, CHOOSE fill \in StackFill : fill # 0)

HashedKeys ==
  [a \in Passphrases \X HashedKeySizes |-> coreHashKey(a[1], abKey, a[2], 1)] @@ <<>>

HashKey(pszKey, cbKey) ==
  IF <<pszKey, cbKey>> \in DOMAIN HashedKeys
  THEN HashedKeys[<<pszKey, cbKey>>]
  ELSE coreHashKey(pszKey, abKey, cbKey, 1)

\* the loop over the lines of the header file  (lines 127-144)
ReadHeader(flIn) ==
  IF file1.kind = "file" THEN ParseHeader(file1.lines, flIn)
  ELSE [szCipher |-> <<>>, cbKey |-> 0, cbBlock |-> 0, flCryptoFlags |-> flIn]

NoKey == [pszID |-> <<>>, cbBlock |-> 0, cbKey |-> 0, key |-> <<>>]

NoHash == [called |-> FALSE, cbKey |-> 0, maxW |-> -1, oob |-> FALSE, rounds |-> 0]

readSuperBlock1(p, h, flIn, fault) ==
  LET none == [szCipher |-> <<>>, cbKey |-> 0, cbBlock |-> 0, flCryptoFlags |-> flIn]
      idx  == FindCipher(papCipher, p.szCipher, 1)
      hash == [called |-> TRUE, cbKey |-> p.cbKey, maxW |-> h.maxW, oob |-> h.oob,
               rounds |-> h.rounds]
      cr2  == cryptCreateKeyResult(p.cbKey, fault)
  IN  IF fault = "pathTooLong"
      THEN [cr |-> "CORERC_INVALID_PARAMETER", calls |-> <<>>, p |-> none,
            hash |-> NoHash, pKey |-> NoKey, killed |-> FALSE]
      ELSE IF file1.kind = "missing" \/ fault = "fopen1"
      THEN [cr |-> "CORERC_STORAGE", calls |-> <<"fopen1">>, p |-> none,
            hash |-> NoHash, pKey |-> NoKey, killed |-> FALSE]
      ELSE IF fault = "fclose1"
      THEN [cr |-> "CORERC_STORAGE", calls |-> <<"fopen1">>, p |-> p,
            hash |-> NoHash, pKey |-> NoKey, killed |-> FALSE]
      ELSE IF idx = 0
      THEN [cr |-> "CORERC_UNKNOWN_CIPHER", calls |-> <<"fopen1">>, p |-> p,
            hash |-> NoHash, pKey |-> NoKey, killed |-> FALSE]
      \* an access outside abKey: the process may be killed there (a negative
      \* length given to memset always kills it), or it may run on
      ELSE IF h.oob /\ (p.cbKey < 0 \/ fault = "segv")
      THEN [cr |-> "killed", calls |-> <<"fopen1", "coreHashKey">>, p |-> p,
            hash |-> hash, pKey |-> NoKey, killed |-> TRUE]
      ELSE IF cr2 # "CIPHERRC_OK"
      THEN [cr |-> cipherResultToCore(cr2),
            calls |-> <<"fopen1", "coreHashKey", "cryptCreateKey">>, p |-> p,
            hash |-> hash, pKey |-> NoKey, killed |-> FALSE]
      ELSE [cr |-> "CORERC_OK",
            calls |-> <<"fopen1", "coreHashKey", "cryptCreateKey">>, p |-> p,
            hash |-> hash,
            pKey |-> KeyHandle(papCipher[idx], p.cbBlock, p.cbKey, h.key),
            killed |-> FALSE]

(***************************************************************************)
(* readSuperBlock2, superblock.c:172-214.  mem holds the fields of the     *)
(* SuperBlock as they are before the call.                                 *)
(***************************************************************************)
readSuperBlock2(pKey, flCryptoFlags, mem, fault, junk) ==
  LET d == coreDecryptSectorData(file2, pKey, flCryptoFlags, fault, junk)
  IN  IF file2.kind = "missing" \/ fault = "fopen2"
      THEN [cr |-> "CORERC_STORAGE", mem |-> mem, calls |-> <<"fopen2">>]
      ELSE IF file2.kind = "short" \/ fault = "fread2"
      THEN [cr |-> "CORERC_STORAGE", mem |-> mem, calls |-> <<"fopen2">>]
      ELSE IF fault = "fclose2"
      THEN [cr |-> "CORERC_STORAGE", mem |-> mem, calls |-> <<"fopen2">>]
      ELSE [cr |-> d.cr, mem |-> FromDisk(d.plain),
            calls |-> <<"fopen2", "coreDecryptSectorData">>]

\* createVolume, superblock.c:217-225: coreAccessVolume's result; the Volume
\* keeps the parameters it was opened with
createVolume(fault) == IF fault = "vol" THEN "CORERC_STORAGE" ELSE "CORERC_OK"

Volume(flCryptoFlags, fReadOnly) ==
  [parms |-> [flCryptoFlags |-> flCryptoFlags, fReadOnly |-> fReadOnly]]

\* the checks without the one on crread2
OpenResultNoRead2(crread2, mem) ==
  IF mem.magic # SUPERBLOCK2_MAGIC THEN "CORERC_BAD_SUPERBLOCK"
  ELSE IF mem.version > SBV_CURRENT THEN "CORERC_BAD_VERSION"
  ELSE "CORERC_OK"

\* the checks with the version looked at before the magic
OpenResultVersionFirst(crread2, mem) ==
  IF crread2 # "CORERC_OK" THEN crread2
  ELSE IF mem.version > SBV_CURRENT THEN "CORERC_BAD_VERSION"
  ELSE IF mem.magic # SUPERBLOCK2_MAGIC THEN "CORERC_BAD_SUPERBLOCK"
  ELSE "CORERC_OK"

\* the checks after the instance is handed out  (lines 265-270)
OpenResult(crread2, mem) ==
  IF crread2 # "CORERC_OK" THEN crread2
  ELSE IF mem.magic # SUPERBLOCK2_MAGIC THEN "CORERC_BAD_SUPERBLOCK"
  ELSE IF mem.version > SBV_CURRENT THEN "CORERC_BAD_VERSION"
  ELSE "CORERC_OK"

Calls(q) == {q[i] : i \in DOMAIN q}

\* the exit taken when createVolume fails  (lines 258-261)
VolumeFailExit == <<"sysFreeSecureMem">>

OpenFaults ==
  {"none", "alloc", "pathTooLong", "fopen1", "fclose1", "keyNoMem", "keyUnknown",
   "keyOther", "segv", "fopen2", "fread2", "fclose2", "badChecksum", "vol"}

(***************************************************************************)
(* coreReadSuperBlock, superblock.c:228-271: what one call does, given the *)
(* header values p, the hashing h, the failure the environment injects and *)
(* junk, what the allocated memory holds (and what a sector decrypts to    *)
(* under a key that is not its own).  The result names the pointer stored  *)
(* in *ppSuperBlock, the state of the three resources, the calls made and  *)
(* the CoreResults.                                                        *)
(***************************************************************************)
Instance(pszKey, parms, r1, mem) ==
  [kind |-> "sb", pKey |-> r1.pKey,
   pVolume |-> Volume(r1.p.flCryptoFlags, parms.fReadOnly),
   magic |-> mem.magic, version |-> mem.version,
   flFlags |-> mem.flFlags, idRoot |-> mem.idRoot,
   szLabel |-> mem.szLabel, szDescription |-> mem.szDescription,
   pass |-> pszKey]

OpenExit(r1, r2, crvol, pszKey, parms, fault) ==
  IF fault = "alloc"
  THEN [sb |-> NULL, killed |-> FALSE, key |-> "none", vol |-> "none", mem |-> "none",
        calls |-> <<"sysAllocSecureMem">>,
        cr |-> "CORERC_NOT_ENOUGH_MEMORY", cr1 |-> "notcalled",
        crread2 |-> "notcalled", crvol |-> "notcalled",
        p |-> [szCipher |-> <<>>, cbKey |-> 0, cbBlock |-> 0,
               flCryptoFlags |-> parms.flCryptoFlags],
        hash |-> NoHash]
  ELSE IF r1.killed
  THEN [sb |-> NULL, killed |-> TRUE, key |-> "none", vol |-> "none", mem |-> "live",
        calls |-> <<"sysAllocSecureMem">> \o r1.calls,
        cr |-> "killed", cr1 |-> "killed", crread2 |-> "notcalled",
        crvol |-> "notcalled", p |-> r1.p, hash |-> r1.hash]
  ELSE IF r1.cr # "CORERC_OK"
  THEN [sb |-> NULL, killed |-> FALSE, key |-> "none", vol |-> "none", mem |-> "freed",
        calls |-> <<"sysAllocSecureMem">> \o r1.calls \o <<"sysFreeSecureMem">>,
        cr |-> r1.cr, cr1 |-> r1.cr, crread2 |-> "notcalled",
        crvol |-> "notcalled", p |-> r1.p, hash |-> r1.hash]
  ELSE IF crvol # "CORERC_OK"
  THEN [sb |-> NULL, killed |-> FALSE,
        key |-> IF "cryptDestroyKey" \in Calls(VolumeFailExit) THEN "destroyed" ELSE "live",
        vol |-> "none", mem |-> "freed",
        calls |-> <<"sysAllocSecureMem">> \o r1.calls \o r2.calls
                    \o <<"coreAccessVolume">> \o VolumeFailExit,
        cr |-> crvol, cr1 |-> r1.cr, crread2 |-> r2.cr, crvol |-> crvol,
        p |-> r1.p, hash |-> r1.hash]
  ELSE [sb |-> Instance(pszKey, parms, r1, r2.mem), killed |-> FALSE,
        key |-> "live", vol |-> "live", mem |-> "live",
        calls |-> <<"sysAllocSecureMem">> \o r1.calls \o r2.calls
                    \o <<"coreAccessVolume">>,
        cr |-> OpenResult(r2.cr, r2.mem), cr1 |-> r1.cr, crread2 |-> r2.cr,
        crvol |-> crvol, p |-> r1.p, hash |-> r1.hash]

OpenOutcome(p, h, pszKey, parms, fault, junk) ==
  CHOOSE o \in
    { CHOOSE o2 \in
        { OpenExit(r1, r2, createVolume(fault), pszKey, parms, fault) :
            r2 \in {readSuperBlock2(r1.pKey, r1.p.flCryptoFlags, Raw(junk), fault, junk)} } : TRUE :
        r1 \in {readSuperBlock1(p, h, parms.flCryptoFlags, fault)} } : TRUE

\* The action: the caller holds no instance.
coreReadSuperBlock(pszKey, parms) ==
  /\ ~aborted
  /\ sb = NULL
  /\ file1' = file1 /\ file2' = file2 /\ rt' = rt /\ hs' = hs
  /\ \E p \in {ReadHeader(parms.flCryptoFlags)} :
     \E h \in {HashKey(pszKey, p.cbKey)} :
     \E fault \in OpenFaults, junk \in Junk :
     \E o \in {OpenOutcome(p, h, pszKey, parms, fault, junk)} :
       /\ sb' = o.sb
       /\ aborted' = o.killed
       /\ keyState' = o.key /\ volState' = o.vol /\ memState' = o.mem
       /\ log' = o.calls
       /\ last' = [op |-> "open", cr |-> o.cr, pass |-> pszKey,
                   clean |-> (fault = "none"),
                   cr1 |-> o.cr1, crread2 |-> o.crread2, crvol |-> o.crvol,
                   p |-> o.p, hash |-> o.hash]

(***************************************************************************)
(* coreWriteSuperBlock, superblock.c:274-354.                              *)
(***************************************************************************)
\* a write that is never refused
WriteRefusedNever(pParms) == FALSE

\* if (pParms->fReadOnly) return CORERC_READ_ONLY;  (line 285)
WriteRefused(pParms) == pParms.fReadOnly

\* if (!(flags & CWS_NOWRITE_SUPERBLOCK1))  (line 287)
WritesHeader(flags) == (flags \div CWS_NOWRITE_SUPERBLOCK1) % 2 = 0

\* the header file after the header phase  (lines 295-315): fopen "w+" empties
\* it, each fprintf adds a line; a failed fclose loses what was buffered
HeaderPhase(s, pParms, fault) ==
  LET l1 == FormatCipherLine(s.pKey)
      l2 == FormatCbcLine(pParms.flCryptoFlags)
  IN  CASE fault = "fopen1"   -> [cr |-> "CORERC_STORAGE", file |-> file1, calls |-> <<"fopen1">>]
        [] fault = "fprintf1" -> [cr |-> "CORERC_STORAGE", file |-> TextFile(<<>>), calls |-> <<"fopen1">>]
        [] fault = "fclose1"  -> [cr |-> "CORERC_STORAGE", file |-> TextFile(<<>>), calls |-> <<"fopen1">>]
        [] OTHER              -> [cr |-> "CORERC_OK", file |-> TextFile(<<l1, l2>>), calls |-> <<"fopen1">>]

\* the record file after the record phase  (lines 324-348): fopen "w+b"
\* empties it, fwrite stores the encrypted sector.  A label or description
\* with no NUL inside its array makes strcpy run past it: the process may be
\* killed there, or run on with whatever the copy left in the field.
RecordPhase(s, pParms, fault) ==
  LET sector == coreEncryptSectorData(OnDisk(s), s.pKey, pParms.flCryptoFlags)
      wild   == ~Terminated(s.szLabel) \/ ~Terminated(s.szDescription)
  IN  CASE fault = "fopen2"  -> [cr |-> "CORERC_STORAGE", file |-> file2, calls |-> <<"fopen2">>]
        [] wild /\ fault = "segv" -> [cr |-> "killed", file |-> Short, calls |-> <<"fopen2">>]
        [] fault = "fwrite2" -> [cr |-> "CORERC_STORAGE", file |-> Short, calls |-> <<"fopen2">>]
        [] fault = "fclose2" -> [cr |-> "CORERC_STORAGE", file |-> Short, calls |-> <<"fopen2">>]
        [] OTHER             -> [cr |-> "CORERC_OK", file |-> sector, calls |-> <<"fopen2">>]

\* what the round trip has to give back: the values of a write that returned
\* CORERC_OK and wrote both files
Written(s, pParms) ==
  [kind |-> "written", pass |-> s.pass, flFlags |-> s.flFlags, idRoot |-> s.idRoot,
   label |-> CStr(s.szLabel), desc |-> CStr(s.szDescription),
   cbc |-> AndCbc(pParms.flCryptoFlags),
   terminated |-> Terminated(s.szLabel) /\ Terminated(s.szDescription)]

WriteFaults ==
  {"none", "fopen1", "fprintf1", "fclose1", "fopen2", "segv", "fwrite2", "fclose2"}

coreWriteSuperBlock(flags, fault) ==
  /\ ~aborted
  /\ sb # NULL
  /\ UNCHANGED <<keyState, volState, memState, hs>>
  /\ \E pParms \in {sb.pVolume.parms} :   \* coreQueryVolumeParms(pSuperBlock->pVolume)
     \E hp \in {IF WritesHeader(flags) THEN HeaderPhase(sb, pParms, fault)
                 ELSE [cr |-> "CORERC_OK", file |-> file1, calls |-> <<>>]} :
     \E rp \in {RecordPhase(sb, pParms, fault)} :
     LET rec(cr) == [op |-> "write", cr |-> cr, flags |-> flags]
     IN
     /\ IF WriteRefused(pParms)
        THEN /\ last' = rec("CORERC_READ_ONLY")
             /\ log' = <<>>
             /\ UNCHANGED <<file1, file2, sb, aborted, rt>>
        ELSE IF hp.cr # "CORERC_OK"
        THEN /\ last' = rec(hp.cr)
             /\ log' = hp.calls
             /\ file1' = hp.file
             /\ rt' = IF hp.file = file1 THEN rt ELSE NoWrite
             /\ UNCHANGED <<file2, sb, aborted>>
        ELSE /\ last' = rec(rp.cr)
             /\ log' = hp.calls \o rp.calls
             /\ file1' = hp.file
             /\ file2' = rp.file
             /\ aborted' = (rp.cr = "killed")
             \* pSuperBlock->version = SBV_CURRENT; pSuperBlock->magic = ...
             /\ sb' = IF rp.cr = "CORERC_OK"
                      THEN [sb EXCEPT !.version = SBV_CURRENT, !.magic = SUPERBLOCK2_MAGIC]
                      ELSE sb
             /\ rt' = IF rp.cr = "CORERC_OK" /\ WritesHeader(flags) THEN Written(sb, pParms)
                      ELSE IF hp.file = file1 /\ rp.file = file2 THEN rt
                      ELSE NoWrite

(***************************************************************************)
(* coreDropSuperBlock, superblock.c:357-369.                               *)
(***************************************************************************)
\* coreDropVolume's result (outside src/)
coreDropVolume(fault) == IF fault = "vol" THEN "CORERC_STORAGE" ELSE "CORERC_OK"

\* a teardown that goes on after a failed coreDropVolume
DropTailAlways(cr) == <<"cryptDestroyKey", "sysFreeSecureMem">>

\* the calls after coreDropVolume  (lines 362-366)
DropTail(cr) ==
  IF cr # "CORERC_OK" THEN <<>> ELSE <<"cryptDestroyKey", "sysFreeSecureMem">>

DropFaults == {"none", "vol"}

coreDropSuperBlock(fault) ==
  LET cr   == coreDropVolume(fault)
      tail == DropTail(cr)
  IN
  /\ ~aborted
  /\ sb # NULL
  /\ UNCHANGED <<file1, file2, aborted, rt, hs>>
  /\ log' = <<"coreDropVolume">> \o tail
  /\ last' = [op |-> "drop", cr |-> cr, crvol |-> coreDropVolume(fault)]
  /\ volState' = IF cr = "CORERC_OK" THEN "released" ELSE volState
  /\ keyState' = IF "cryptDestroyKey" \in Calls(tail) THEN "destroyed" ELSE keyState
  /\ memState' = IF "sysFreeSecureMem" \in Calls(tail) THEN "freed" ELSE memState
  /\ sb' = IF "sysFreeSecureMem" \in Calls(tail) THEN NULL ELSE sb

(***************************************************************************)
(* The rest of the world: between two mounts the record file is deleted,   *)
(* cut short or overwritten; the caller edits the fields of the instance   *)
(* it holds.                                                               *)
(***************************************************************************)
EnvSetRecord(f) ==
  /\ ~aborted
  /\ sb = NULL
  /\ file2.kind = "sector"
  /\ file2' = f
  /\ rt' = NoWrite
  /\ last' = [op |-> "env"]
  /\ log' = <<>>
  /\ UNCHANGED <<file1, sb, keyState, volState, memState, aborted, hs>>

CallerFields ==
  { [flFlags |-> 5, idRoot |-> 7, szLabel |-> Field(<<76, 49>>, LabelWidth),
     szDescription |-> Field(<<68, 49>>, DescWidth)] }

CallerSetFields(f) ==
  /\ ~aborted
  /\ sb # NULL
  /\ sb' = [sb EXCEPT !.flFlags = f.flFlags, !.idRoot = f.idRoot,
                      !.szLabel = f.szLabel, !.szDescription = f.szDescription]
  /\ sb' # sb
  /\ last' = [op |-> "caller"]
  /\ log' = <<>>
  /\ UNCHANGED <<file1, file2, keyState, volState, memState, aborted, rt, hs>>

(***************************************************************************)
(* The system: a volume with one of the header files (or none) and no      *)
(* record file yet.                                                        *)
(***************************************************************************)
HashIdle == [pc |-> "idle"]

Init ==
  /\ file1 \in {Missing} \cup {TextFile(f) : f \in HeaderFiles}
  /\ file2 = Missing
  /\ sb = NULL
  /\ keyState = "none" /\ volState = "none" /\ memState = "none"
  /\ last = Idle
  /\ log = <<>>
  /\ aborted = FALSE
  /\ rt = NoWrite
  /\ hs = HashIdle

Open ==
  \E pszKey \in Passphrases, parms \in Parms : coreReadSuperBlock(pszKey, parms)

Write ==
  \E flags \in {0, CWS_NOWRITE_SUPERBLOCK1}, fault \in WriteFaults :
    coreWriteSuperBlock(flags, fault)

Drop == \E fault \in DropFaults : coreDropSuperBlock(fault)

EnvRecord == \E f \in {Missing, Corrupt} : EnvSetRecord(f)

Caller == \E f \in CallerFields : CallerSetFields(f)

Next == Open \/ Write \/ Drop \/ EnvRecord \/ Caller

Spec == Init /\ [][Next]_vars

(***************************************************************************)
(* coreHashKey on its own, one iteration of its while loop at a time, on   *)
(* every passphrase length up to MaxPassLen and every key length from 1 to *)
(* MaxKeyLen.  hs holds the arguments, the position in the function and    *)
(* the locals.                                                             *)
(***************************************************************************)
HashCalls ==
  { [pc |-> "call", pszKey |-> Pass(n), cbKey |-> L, v |-> v, fill |-> fill] :
      n \in 0..MaxPassLen, L \in 1..MaxKeyLen, v \in ShaVariants, fill \in StackFill }

InitHash ==
  /\ file1 = Missing /\ file2 = Missing
  /\ sb = NULL
  /\ keyState = "none" /\ volState = "none" /\ memState = "none"
  /\ last = Idle
  /\ log = <<>>
  /\ aborted = FALSE
  /\ rt = NoWrite
  /\ hs \in HashCalls

\* lines 74-79: the declarations, memset, strlen
HashEnter ==
  /\ hs.pc = "call"
  /\ hs' = [pc |-> "while", pszKey |-> hs.pszKey, cbKey |-> hs.cbKey, v |-> hs.v,
            fill |-> hs.fill,
            h |-> HashInit(hs.pszKey, Buffer(MAX_KEY_SIZE, hs.fill), hs.cbKey)]
  /\ UNCHANGED <<file1, file2, sb, keyState, volState, memState, last, log, aborted, rt>>

\* lines 81-97: one iteration of while (cbLeft > 0)
HashIterate ==
  /\ hs.pc = "while"
  /\ hs.h.cbLeft > 0
  /\ hs' = [hs EXCEPT !.h = HashRound(hs.h, hs.pszKey, hs.cbKey, hs.v)]
  /\ UNCHANGED <<file1, file2, sb, keyState, volState, memState, last, log, aborted, rt>>

\* line 99: return CORERC_OK
HashReturn ==
  /\ hs.pc = "while"
  /\ hs.h.cbLeft <= 0
  /\ hs' = [pc |-> "done", pszKey |-> hs.pszKey, cbKey |-> hs.cbKey, v |-> hs.v,
            fill |-> hs.fill, h |-> hs.h, cr |-> "CORERC_OK"]
  /\ UNCHANGED <<file1, file2, sb, keyState, volState, memState, last, log, aborted, rt>>

NextHash == HashEnter \/ HashIterate \/ HashReturn

SpecHash == InitHash /\ [][NextHash]_vars

(***************************************************************************)
(* Properties of coreReadSuperBlock.  last holds the results of the call   *)
(* that has just returned: cr (the function's), cr1 (readSuperBlock1's),   *)
(* crread2 (readSuperBlock2's), crvol (createVolume's), "notcalled" for a  *)
(* step not reached, "killed" when the process did not survive the call.   *)
(***************************************************************************)
Returned == last.op = "open" /\ last.cr # "killed"

\* the lookup in the registry was reached: the header file was read
LookupReached ==
  last.cr1 \notin {"notcalled", "killed", "CORERC_INVALID_PARAMETER", "CORERC_STORAGE"}

\* C1: coreReadSuperBlock hands back an instance exactly when readSuperBlock1
\* and createVolume both returned CORERC_OK; without an instance its result
\* is not CORERC_OK; a header whose cipher is not in the registry gives
\* CORERC_UNKNOWN_CIPHER, no instance, and coreAccessVolume is not called.
OpenNullIff ==
  Returned =>
    /\ sb # NULL <=> (last.cr1 = "CORERC_OK" /\ last.crvol = "CORERC_OK")
    /\ sb = NULL => last.cr \notin {"CORERC_OK", "notcalled"}
    /\ last.cr1 # "CORERC_OK" => last.cr = last.cr1 \/ last.cr1 = "notcalled"
    /\ (last.cr1 = "CORERC_OK" /\ last.crvol # "CORERC_OK") => last.cr = last.crvol
    /\ (LookupReached /\ last.p.szCipher \notin Calls(papCipher)) =>
         /\ last.cr = "CORERC_UNKNOWN_CIPHER"
         /\ sb = NULL
         /\ "coreAccessVolume" \notin Calls(log)
         /\ "cryptCreateKey" \notin Calls(log)

\* an open of a header naming a cipher that is not registered
OpenUnknownCipherSeen ==
  /\ Returned
  /\ LookupReached
  /\ last.p.szCipher = <<"x", "x">>
  /\ last.p.cbKey = 16
  /\ last.cr = "CORERC_UNKNOWN_CIPHER"
  /\ sb = NULL

\* C2: when readSuperBlock1 and createVolume returned CORERC_OK and
\* readSuperBlock2 did not, coreReadSuperBlock hands back an instance with
\* its volume, and returns readSuperBlock2's result, which is none of
\* CORERC_OK, CORERC_BAD_SUPERBLOCK, CORERC_BAD_VERSION.
DegradedOpen ==
  (Returned /\ last.cr1 = "CORERC_OK" /\ last.crvol = "CORERC_OK"
     /\ last.crread2 # "CORERC_OK") =>
    /\ sb # NULL
    /\ volState = "live"
    /\ last.cr = last.crread2
    /\ last.cr \notin {"CORERC_OK", "CORERC_BAD_SUPERBLOCK", "CORERC_BAD_VERSION", "notcalled"}

\* a degraded open: the record could not be read, the fields left in memory
\* carry a wrong magic and a version above the current one
DegradedOpenSeen ==
  /\ Returned
  /\ last.crread2 = "CORERC_STORAGE"
  /\ last.cr = "CORERC_STORAGE"
  /\ sb # NULL
  /\ sb.magic # SUPERBLOCK2_MAGIC
  /\ sb.version > SBV_CURRENT
  /\ volState = "live"

\* C3: when readSuperBlock2 and createVolume returned CORERC_OK there is an
\* instance, and the result follows from its magic and version: a magic other
\* than SUPERBLOCK2_MAGIC gives CORERC_BAD_SUPERBLOCK whatever the version,
\* the right magic with a version above SBV_CURRENT gives CORERC_BAD_VERSION,
\* the right magic with a version up to SBV_CURRENT gives CORERC_OK.  Neither
\* CORERC_BAD_SUPERBLOCK nor CORERC_BAD_VERSION comes without an instance.
MagicVersionResult ==
  /\ (Returned /\ last.crread2 = "CORERC_OK" /\ last.crvol = "CORERC_OK") =>
       /\ sb # NULL
       /\ sb.magic # SUPERBLOCK2_MAGIC => last.cr = "CORERC_BAD_SUPERBLOCK"
       /\ (sb.magic = SUPERBLOCK2_MAGIC /\ sb.version > SBV_CURRENT) =>
            last.cr = "CORERC_BAD_VERSION"
       /\ (sb.magic = SUPERBLOCK2_MAGIC /\ sb.version <= SBV_CURRENT) =>
            last.cr = "CORERC_OK"
  /\ (Returned /\ last.cr \in {"CORERC_BAD_SUPERBLOCK", "CORERC_BAD_VERSION"}) =>
       sb # NULL

\* a record that decrypts to a wrong magic and a version above the current
MagicBeforeVersionSeen ==
  /\ Returned
  /\ last.crread2 = "CORERC_OK"
  /\ sb # NULL
  /\ sb.magic # SUPERBLOCK2_MAGIC
  /\ sb.version > SBV_CURRENT
  /\ last.cr = "CORERC_BAD_SUPERBLOCK"

\* C6: when coreReadSuperBlock returns without an instance, no key handle
\* that cryptCreateKey built during the call is still live.
KeyNotLeaked ==
  (Returned /\ sb = NULL) => keyState # "live"

\* C8: the cipher id, key size and block size readSuperBlock1 looks up and
\* derives the key with are those of the last line of the header file that
\* is a well-formed "cipher: <id>-<keyBits>-<blockBits>" line, the sizes
\* being the bit counts divided by 8; any other line changes none of them.
Blank == [szCipher |-> <<>>, cbKey |-> 0, cbBlock |-> 0, flCryptoFlags |-> 0]

WellFormedCipherLine(szLine) ==
  /\ ScanLine(szLine).n = 2
  /\ ScanLine(szLine).szName = S_cipher
  /\ ScanCipher(ScanLine(szLine).szValue, Blank).n = 3

RECURSIVE LastWellFormed(_, _)
LastWellFormed(lines, i) ==
  IF i = 0 THEN Blank
  ELSE IF WellFormedCipherLine(lines[i])
  THEN CipherLine(Blank, ScanCipher(ScanLine(lines[i]).szValue, Blank))
  ELSE LastWellFormed(lines, i - 1)

MalformedLinesSkipped ==
  (Returned /\ LookupReached /\ file1.kind = "file") =>
    LET w == LastWellFormed(file1.lines, Len(file1.lines))
    IN  /\ last.p.szCipher = w.szCipher
        /\ last.p.cbKey = w.cbKey
        /\ last.p.cbBlock = w.cbBlock

\* C10: the index coreHashKey writes at stays within 0..cbKey-1 and within
\* abKey[MAX_KEY_SIZE], whatever key length the header gives.
KeyBufferBounds ==
  (last.op = "open" /\ last.hash.called) =>
    /\ ~last.hash.oob
    /\ last.hash.maxW <= last.hash.cbKey - 1
    /\ last.hash.maxW <= MAX_KEY_SIZE - 1

(***************************************************************************)
(* Properties of coreWriteSuperBlock.                                      *)
(***************************************************************************)
\* C4: on an instance whose volume is read-only, coreWriteSuperBlock returns
\* CORERC_READ_ONLY whatever its flags; it opens neither file, both files
\* stay as they are, and so does the instance.
ReadOnlyStep ==
  (sb # NULL /\ sb.pVolume.parms.fReadOnly /\ last'.op = "write") =>
    /\ last'.cr = "CORERC_READ_ONLY"
    /\ file1' = file1
    /\ file2' = file2
    /\ sb' = sb
    /\ log' = <<>>

ReadOnlyWrite == [][ReadOnlyStep]_vars

\* a write refused on a read-only volume whose files exist, asked not to
\* write the header
ReadOnlyWriteSeen ==
  /\ last.op = "write"
  /\ last.cr = "CORERC_READ_ONLY"
  /\ last.flags = CWS_NOWRITE_SUPERBLOCK1
  /\ sb # NULL
  /\ sb.pVolume.parms.fReadOnly
  /\ file2.kind = "sector"

\* C5: after a write that returned CORERC_OK and wrote the header, of an
\* instance whose label and description are terminated, an open with the
\* same passphrase, with the files as written and nothing failing around it,
\* returns CORERC_OK and an instance with the flags, root id, label and
\* description written, SUPERBLOCK2_MAGIC, SBV_CURRENT, and the CBC flag of
\* the write.
RoundTrip ==
  (Returned /\ last.clean /\ rt.kind = "written" /\ rt.terminated
     /\ last.pass = rt.pass) =>
    /\ last.cr = "CORERC_OK"
    /\ sb # NULL
    /\ sb.flFlags = rt.flFlags
    /\ sb.idRoot = rt.idRoot
    /\ CStr(sb.szLabel) = rt.label
    /\ CStr(sb.szDescription) = rt.desc
    /\ sb.magic = SUPERBLOCK2_MAGIC
    /\ sb.version = SBV_CURRENT
    /\ AndCbc(sb.pVolume.parms.flCryptoFlags) = rt.cbc

\* a round trip of a label and a description that are not empty
RoundTripSeen ==
  /\ Returned
  /\ last.clean
  /\ rt.kind = "written"
  /\ rt.terminated
  /\ last.pass = rt.pass
  /\ rt.label # <<>>
  /\ rt.desc # <<>>
  /\ sb # NULL
  /\ CStr(sb.szLabel) = rt.label

(***************************************************************************)
(* Properties of coreDropSuperBlock.                                       *)
(***************************************************************************)
\* C7: coreDropSuperBlock calls coreDropVolume first.  When that fails it
\* returns its error, and the key handle and the memory stay live, the
\* instance usable.  When it succeeds the key handle is destroyed, then the
\* memory freed, each once, and CORERC_OK returned.
DropOrder ==
  last.op = "drop" =>
    /\ log # <<>> /\ log[1] = "coreDropVolume"
    /\ last.cr = last.crvol
    /\ last.cr # "CORERC_OK" =>
         /\ log = <<"coreDropVolume">>
         /\ keyState = "live" /\ memState = "live" /\ volState = "live"
         /\ sb # NULL
    /\ last.cr = "CORERC_OK" =>
         /\ log = <<"coreDropVolume", "cryptDestroyKey", "sysFreeSecureMem">>
         /\ keyState = "destroyed" /\ memState = "freed" /\ volState = "released"
         /\ sb = NULL

\* a drop whose coreDropVolume failed
DropFailedSeen ==
  /\ last.op = "drop"
  /\ last.cr = "CORERC_STORAGE"
  /\ sb # NULL
  /\ keyState = "live"

(***************************************************************************)
(* Properties of coreHashKey.                                              *)
(***************************************************************************)
\* ceil(n / d)
CeilDiv(n, d) == (n + d - 1) \div d

\* C9: for a passphrase of n bytes and a key of L bytes, coreHashKey makes
\* exactly ceil(n / SHA_DIGESTSIZE) rounds and returns CORERC_OK; every key
\* byte at an index from SHA_DIGESTSIZE * ceil(n / SHA_DIGESTSIZE) on is zero
\* (all L bytes when the passphrase is empty); the first round starts at
\* index 0 and every later round where the round before it ended, counted
\* modulo L.
HashZeroSuffix ==
  hs.pc = "done" =>
    LET n == Len(hs.pszKey)
        L == hs.cbKey
        R == CeilDiv(n, SHA_DIGESTSIZE)
    IN  /\ hs.cr = "CORERC_OK"
        /\ hs.h.rounds = R
        /\ \A i \in 0..(L - 1) : i >= SHA_DIGESTSIZE * R => hs.h.key[i] = 0
        /\ n = 0 => \A i \in 0..(L - 1) : hs.h.key[i] = 0
        /\ Len(hs.h.starts) = R
        /\ \A k \in 1..R : hs.h.starts[k] = (SHA_DIGESTSIZE * (k - 1)) % L
        /\ hs.h.iPos = (SHA_DIGESTSIZE * R) % L

\* a one-round derivation into a key longer than a digest: the digest's
\* bytes are in the key, the bytes after them are zero
HashZeroSuffixSeen ==
  /\ hs.pc = "done"
  /\ hs.h.rounds = 1
  /\ hs.cbKey > SHA_DIGESTSIZE
  /\ hs.fill # 0
  /\ \E i \in 0..(SHA_DIGESTSIZE - 1) : hs.h.key[i] # 0
  /\ hs.h.key[hs.cbKey - 1] = 0

====
